---------------------------- MODULE Spec2Model ----------------------------
(***************************************************************************)
(* A model of src/src/model.cc (fastText's Model class): the Huffman tree  *)
(* of hierarchical softmax, the negative sampling table and its cursor,    *)
(* the top-k ranker (findKBest / dfs) and the trainer's update.            *)
(*                                                                         *)
(* Vectors of the program that are indexed from 0 (counts, tree, paths,    *)
(* codes, output_) are functions on 0..n-1; vectors that grow by           *)
(* push_back (a path, a code, negatives, the heap) are sequences, so the   *)
(* C++ element v[i] is v[i + 1] here.                                      *)
(*                                                                         *)
(* Real numbers.  The dense linear algebra (Matrix, Vector) and            *)
(* utils::sigmoid / utils::log are outside the file.  A score is an        *)
(* integer; sigmoid(wo_.dotRow(hidden_, n)) is a level f in 0..MaxF with   *)
(* log(f) = f - MaxF and log(1 - f) = -f, both non-positive as the table   *)
(* based utils::log returns for an argument in [0, 1].  A row of wi_ or    *)
(* wo_ is the number of addRow calls applied to it.  The scratch vectors   *)
(* hidden_, grad_ and output_ are recomputed by every call and are not     *)
(* state of the model: predict reads the scores they would hold from       *)
(* dense and sig.                                                          *)
(***************************************************************************)
EXTENDS Integers, Sequences, FiniteSets, TLC

\* ------------------------------------------------------------- bounds
MaxC == 4
MaxNegClasses == 2
MaxExp == 2
MaxRoot == 3
MaxK == 2
MaxF == 1
MaxScore == 1
MaxBag == 1
MaxUpdates == 1

\* ------------------------------------------------- program constants
\* model.h: the floor of the learning rate, in the model's unit of rate.
MIN_LR == 1
\* model.h: the capacity of the negative table (10000000), scaled down.
NEGATIVE_TABLE_SIZE == 3
\* The count a node has before it is built: 1e15 in the source, here the
\* largest power of ten TLC's integers hold; every count is far below it.
BigCount == 1000000000
\* args.neg: the negatives drawn per update.
NEG == 2

Losses == {"ns", "hs", "softmax"}
\* The rates a caller passes: below, at and above the floor.
LrVals == {-5, MIN_LR - 1, MIN_LR, MIN_LR + 1}
\* wi_.m_ = 1: the input rows.
InputRows == {0}
\* What one binaryLogistic or softmax call returns as loss: -log(score) is
\* counted as one unit of loss.
LossVals == {1}

VARIABLES
  loss,        \* args.loss
  osz,         \* osz_
  counts,      \* the frequency table the driver passes to setTargetCounts
  lr,          \* lr_
  configured,  \* setTargetCounts has run
  tree,        \* tree
  paths,       \* paths
  codes,       \* codes
  negatives,   \* negatives
  negpos,      \* negpos
  wi,          \* wi_: per row, the addRow calls applied
  wo,          \* wo_: per row, the addRow calls applied
  pc,          \* where the running update is: idle, getNegative, negativeSampling
  input,       \* the input of the last update
  target,      \* the target of the running update
  n,           \* negativeSampling's n
  negative,    \* getNegative's negative
  reads,       \* table reads of the running getNegative call
  lossAcc,     \* negativeSampling's loss
  ret,         \* what the last update returned
  updates,     \* update calls with a non-empty input so far
  dense,       \* wo_ * hidden_ for the query: the score of every class
  sig,         \* sigmoid(wo_.dotRow(hidden_, n)) per internal node n, for the query
  heap,        \* predict's heap
  kArg,        \* predict's k
  lrArg        \* the rate last passed to setLearningRate

vars == <<loss, osz, counts, lr, configured, tree, paths, codes, negatives,
          negpos, wi, wo, pc, input, target, n, negative, reads, lossAcc, ret,
          updates, dense, sig, heap, kArg,
          lrArg>>

treeVars == <<tree, paths, codes>>
callVars == <<pc, input, target, n, negative, reads, lossAcc, ret, updates>>
queryVars == <<dense, sig>>
rankVars == <<heap, kArg>>

NoValue == -1

\* ------------------------------------------------------------ helpers
Ascending(cs, C) == \A i \in 0..(C - 2) : cs[i] <= cs[i + 1]
Descending(cs, C) == \A i \in 0..(C - 2) : cs[i] >= cs[i + 1]

Squares == {r * r : r \in 1..MaxRoot}
PowersOfTwo == {2 ^ e : e \in 0..MaxExp}

\* The frequency tables a driver passes: sorted by frequency.  Under
\* negative sampling the counts are perfect squares, so that pow(c, 0.5)
\* is exact; otherwise they are powers of two.
Tables(l) ==
  LET C == IF l = "ns" THEN MaxNegClasses ELSE MaxC
      V == IF l = "ns" THEN Squares ELSE PowersOfTwo
  IN UNION {{cs \in [0..(c - 1) -> V] : Ascending(cs, c) \/ Descending(cs, c)}
            : c \in 1..C}

Size(cs) == Cardinality(DOMAIN cs)

\* ------------------------------------------------- Model::buildTree
\* lines 222-232
InitTree(cs, C) ==
  [i \in 0..(2 * C - 2) |->
     [parent |-> -1, left |-> -1, right |-> -1,
      count |-> IF i < C THEN cs[i] ELSE BigCount, binary |-> FALSE]]

\* PickMin without the comparison of counts: a leaf whenever one is left
PickMinLeafFirst(t, leaf, node) ==
  IF leaf >= 0
  THEN [mini |-> leaf, leaf |-> leaf - 1, node |-> node]
  ELSE [mini |-> node, leaf |-> leaf, node |-> node + 1]

\* lines 238-242: one pass of the j loop
PickMin(t, leaf, node) ==
  IF leaf >= 0 /\ t[leaf].count < t[node].count
  THEN [mini |-> leaf, leaf |-> leaf - 1, node |-> node]
  ELSE [mini |-> node, leaf |-> leaf, node |-> node + 1]

\* Link with the weight of the first child alone
LinkCountLeft(t, i, m0, m1) ==
  [t EXCEPT ![i].left = m0, ![i].right = m1,
            ![i].count = t[m0].count,
            ![m0].parent = i, ![m1].parent = i, ![m1].binary = TRUE]

\* Link with the bit set on the first (left) child
LinkBinaryLeft(t, i, m0, m1) ==
  [t EXCEPT ![i].left = m0, ![i].right = m1,
            ![i].count = t[m0].count + t[m1].count,
            ![m0].parent = i, ![m1].parent = i, ![m0].binary = TRUE]

\* lines 244-249
Link(t, i, m0, m1) ==
  [t EXCEPT ![i].left = m0, ![i].right = m1,
            ![i].count = t[m0].count + t[m1].count,
            ![m0].parent = i, ![m1].parent = i, ![m1].binary = TRUE]

RECURSIVE MergeLoop(_, _, _, _, _)
\* lines 235-250
MergeLoop(t, leaf, node, i, C) ==
  IF i >= 2 * C - 1 THEN t
  ELSE LET p0 == PickMin(t, leaf, node)
           p1 == PickMin(t, p0.leaf, p0.node)
       IN MergeLoop(Link(t, i, p0.mini, p1.mini), p1.leaf, p1.node, i + 1, C)

\* lines 222-250
BuildNodes(cs, C) == MergeLoop(InitTree(cs, C), C - 1, C, C, C)

RECURSIVE WalkPath(_, _, _)
\* lines 254-259: path
WalkPath(t, j, C) ==
  IF t[j].parent = -1 THEN <<>>
  ELSE <<t[j].parent - C>> \o WalkPath(t, t[j].parent, C)

RECURSIVE WalkCode(_, _)
\* lines 254-259: code
WalkCode(t, j) ==
  IF t[j].parent = -1 THEN <<>>
  ELSE <<t[j].binary>> \o WalkCode(t, t[j].parent)

\* ----------------------------------------- Model::initTableNegatives
\* pow(counts[i], 0.5), on a perfect square
Sqrt(c) == CHOOSE r \in 0..c : r * r = c

RECURSIVE SumSqrt(_, _)
\* lines 199-202
SumSqrt(cs, i) == IF i < 0 THEN 0 ELSE SumSqrt(cs, i - 1) + Sqrt(cs[i])

\* Below with the share rounded down: copy j is kept when j + 1 fits
BelowTruncated(j, c, z) == (j + 1) * z <= c * NEGATIVE_TABLE_SIZE

\* line 205: j < c * NEGATIVE_TABLE_SIZE / z, with z > 0
Below(j, c, z) == j * z < c * NEGATIVE_TABLE_SIZE

RECURSIVE PushCopies(_, _, _, _, _)
\* lines 205-207
PushCopies(neg, i, j, c, z) ==
  IF Below(j, c, z) THEN PushCopies(Append(neg, i), i, j + 1, c, z) ELSE neg

RECURSIVE FillTable(_, _, _, _)
\* lines 203-208
FillTable(neg, cs, i, z) ==
  IF i >= Size(cs) THEN neg
  ELSE FillTable(PushCopies(neg, i, 0, Sqrt(cs[i]), z), cs, i + 1, z)

Occurrences(s, x) == Cardinality({p \in DOMAIN s : s[p] = x})

\* line 209: std::shuffle leaves some permutation of the table
Shuffles(s) ==
  {p \in [DOMAIN s -> {s[q] : q \in DOMAIN s}] :
     \A x \in {s[q] : q \in DOMAIN s} : Occurrences(p, x) = Occurrences(s, x)}

\* ------------------------------------------------------------ ranker
\* comparePairs with the comparison turned round
comparePairsAscending(l, r) == l[1] < r[1]

\* lines 106-109; a pair is <<score, class>>
comparePairs(l, r) == l[1] > r[1]

Swap(h, a, b) == [h EXCEPT ![a] = h[b], ![b] = h[a]]

RECURSIVE SiftUp(_, _)
\* std::push_heap: the last element moves up while its parent compares
\* before it
SiftUp(h, i) ==
  IF i > 1 /\ comparePairs(h[i \div 2], h[i])
  THEN SiftUp(Swap(h, i, i \div 2), i \div 2)
  ELSE h

PushHeap(h) == SiftUp(h, Len(h))

RECURSIVE SiftDown(_, _, _)
SiftDown(h, i, len) ==
  LET l == 2 * i
      r == 2 * i + 1
      b1 == IF l <= len /\ comparePairs(h[i], h[l]) THEN l ELSE i
      b2 == IF r <= len /\ comparePairs(h[b1], h[r]) THEN r ELSE b1
  IN IF b2 = i THEN h ELSE SiftDown(Swap(h, i, b2), b2, len)

\* std::pop_heap on the first len elements: the front goes to place len,
\* the rest is a heap again
PopHeap(h, len) == IF len <= 1 THEN h ELSE SiftDown(Swap(h, 1, len), 1, len - 1)

RECURSIVE SortHeapFrom(_, _)
SortHeapFrom(h, len) ==
  IF len <= 1 THEN h ELSE SortHeapFrom(PopHeap(h, len), len - 1)

\* line 122: std::sort_heap
SortHeap(h) == SortHeapFrom(h, Len(h))

\* lines 130-135, and the same lines 146-151 of dfs
PushBounded(k, h, p) ==
  LET h1 == PushHeap(Append(h, p))
  IN IF Len(h1) > k THEN SubSeq(PopHeap(h1, Len(h1)), 1, Len(h1) - 1) ELSE h1

\* Pruned without the test that the heap is full
PrunedAnySize(k, h, score) == Len(h) > 0 /\ score < h[1][1]

\* lines 127-129 and 141-143: the candidate cannot enter the full heap
Pruned(k, h, score) == Len(h) = k /\ score < h[1][1]

RECURSIVE FindKBestFrom(_, _, _, _)
\* lines 126-136
FindKBestFrom(k, h, out, i) ==
  IF i >= Size(out) THEN h
  ELSE IF Pruned(k, h, out[i]) THEN FindKBestFrom(k, h, out, i + 1)
  ELSE FindKBestFrom(k, PushBounded(k, h, <<out[i], i>>), out, i + 1)

\* lines 125-137
FindKBest(k, h, out) == FindKBestFrom(k, h, out, 0)

\* utils::log(f) and utils::log(1.0 - f) at level f
LogF(f) == f - MaxF
Log1mF(f) == 0 - f

RECURSIVE Dfs(_, _, _, _, _)
\* lines 139-158
Dfs(k, node, score, h, s) ==
  IF Pruned(k, h, score) THEN h
  ELSE IF tree[node].left = -1 /\ tree[node].right = -1
  THEN PushBounded(k, h, <<score, node>>)
  ELSE LET f == s[node - osz]
           h1 == Dfs(k, tree[node].left, score + Log1mF(f), h, s)
       IN Dfs(k, tree[node].right, score + LogF(f), h1, s)

\* ------------------------------------------------------------- state
\* lines 21-31: the state a constructed model starts in, for every loss and
\* frequency table
InitModel ==
  /\ loss \in Losses
  /\ counts \in Tables(loss)
  /\ osz = Size(counts)
  /\ configured = FALSE
  /\ tree = <<>> /\ paths = <<>> /\ codes = <<>>
  /\ negatives = <<>> /\ negpos = 0
  /\ wi = [r \in InputRows |-> 0]
  /\ wo = [r \in 0..(osz - 1) |-> 0]
  /\ pc = "idle" /\ input = <<>> /\ target = NoValue /\ n = 0
  /\ negative = NoValue /\ reads = 0 /\ lossAcc = 0 /\ ret = NoValue
  /\ updates = 0
  /\ heap = <<>> /\ kArg = 0 /\ lrArg = NoValue

\* The ranker's start: the weights and the query give any scores; the
\* ranker does not read lr_
InitRank ==
  /\ InitModel
  /\ lr = MIN_LR
  /\ IF loss = "hs"
     THEN dense = <<>> /\ sig \in [0..(osz - 2) -> 0..MaxF]
     ELSE dense \in [0..(osz - 1) -> 0..MaxScore] /\ sig = <<>>

\* lines 221-263
buildTree ==
  LET t == BuildNodes(counts, osz)
  IN /\ tree' = t
     /\ paths' = [i \in 0..(osz - 1) |-> WalkPath(t, i, osz)]
     /\ codes' = [i \in 0..(osz - 1) |-> WalkCode(t, i)]

\* lines 198-210
initTableNegatives ==
  negatives' \in Shuffles(FillTable(<<>>, counts, 0, SumSqrt(counts, osz - 1)))

\* lines 188-196; the driver calls it once, before any update or predict
setTargetCounts ==
  /\ ~configured /\ pc = "idle"
  /\ configured' = TRUE
  /\ IF loss = "ns" THEN initTableNegatives ELSE negatives' = negatives
  /\ IF loss = "hs" THEN buildTree ELSE UNCHANGED treeVars
  /\ UNCHANGED <<loss, osz, counts, lr, negpos, wi, wo>>
  /\ UNCHANGED callVars /\ UNCHANGED queryVars /\ UNCHANGED rankVars
  /\ lrArg' = lrArg

\* lines 111-123, on a non-empty input and an empty heap; line 119 leaves
\* dense in output_
predict ==
  /\ configured /\ pc = "idle"
  /\ \E k \in 1..MaxK :
       /\ kArg' = k
       /\ IF loss = "hs"
          THEN heap' = SortHeap(Dfs(k, 2 * osz - 2, 0, <<>>, sig))
          ELSE heap' = SortHeap(FindKBest(k, <<>>, dense))
  /\ UNCHANGED <<loss, osz, counts, lr, configured, negatives, negpos, wi, wo>>
  /\ UNCHANGED treeVars /\ UNCHANGED callVars /\ UNCHANGED queryVars
  /\ lrArg' = lrArg

\* ------------------------------------------------------ learning rate
\* line 34
Clamp(v) == IF v < MIN_LR THEN MIN_LR ELSE v

\* lines 33-35
setLearningRate ==
  /\ pc = "idle"
  /\ \E v \in LrVals : lrArg' = v /\ lr' = Clamp(v)
  /\ UNCHANGED <<loss, osz, counts, configured, negatives, negpos, wi, wo>>
  /\ UNCHANGED treeVars /\ UNCHANGED callVars /\ UNCHANGED queryVars
  /\ UNCHANGED rankVars

\* ----------------------------------------------------------- trainer
\* The input bags a caller passes: rows of wi_, possibly none
Bags == UNION {[1..m -> InputRows] : m \in 0..MaxBag}

RECURSIVE AddRows(_, _, _)
\* one addRow on row rows[i], for i = 1..to
AddRows(w, rows, to) ==
  IF to = 0 THEN w
  ELSE LET v == AddRows(w, rows, to - 1)
       IN [v EXCEPT ![rows[to]] = @ + 1]

RECURSIVE SumSeq(_, _)
SumSeq(ls, to) == IF to = 0 THEN 0 ELSE SumSeq(ls, to - 1) + ls[to]

\* update without its early return
EmptyInputIgnored(in) == FALSE

\* line 163
EmptyInput(in) == Len(in) = 0

\* lines 179-185: the gradient goes to every input row, the loss is returned
Propagate(in, l) ==
  /\ wi' = AddRows(wi, in, Len(in))
  /\ ret' = l
  /\ pc' = "idle" /\ target' = NoValue

\* lines 53-58: negativeSampling up to its first binaryLogistic, on the target
negativeSampling(in, tg) ==
  /\ wo' = [wo EXCEPT ![tg] = @ + 1]
  /\ \E l \in LossVals :
       IF 1 <= NEG
       THEN /\ lossAcc' = l /\ n' = 1 /\ reads' = 0
            /\ pc' = "getNegative" /\ target' = tg
            /\ UNCHANGED <<wi, ret>>
       ELSE /\ lossAcc' = l /\ n' = 1 /\ reads' = reads
            /\ Propagate(in, l)
  /\ UNCHANGED <<negpos, negative>>

\* lines 66-75: one binaryLogistic per entry of the path of the target
hierarchicalSoftmax(in, tg) ==
  /\ wo' = AddRows(wo, paths[tg], Len(paths[tg]))
  /\ \E ls \in [1..Len(paths[tg]) -> LossVals] :
       Propagate(in, SumSeq(ls, Len(paths[tg])))
  /\ UNCHANGED <<negpos, negative, n, reads, lossAcc>>

\* lines 77-96: every row of wo_ gets its addRow
softmax(in, tg) ==
  /\ wo' = [r \in DOMAIN wo |-> wo[r] + 1]
  /\ \E l \in LossVals : Propagate(in, l)
  /\ UNCHANGED <<negpos, negative, n, reads, lossAcc>>

\* lines 160-186, the call update(in, tg)
updateCall(in, tg) ==
  /\ input' = in
  /\ updates' = IF EmptyInput(in) THEN updates ELSE updates + 1
  /\ IF EmptyInput(in)
     THEN /\ ret' = 0
          /\ UNCHANGED <<wi, wo, negpos, negative, n, reads, lossAcc, pc,
                         target>>
     ELSE IF loss = "ns" THEN negativeSampling(in, tg)
     ELSE IF loss = "hs" THEN hierarchicalSoftmax(in, tg)
     ELSE softmax(in, tg)

\* lines 160-186, for every input bag and every target the asserts allow
update ==
  /\ configured /\ pc = "idle"
  /\ \E in \in Bags, tg \in 0..(osz - 1) :
       /\ EmptyInput(in) \/ updates < MaxUpdates
       /\ updateCall(in, tg)
  /\ UNCHANGED <<loss, osz, counts, lr, configured, negatives>>
  /\ UNCHANGED treeVars /\ UNCHANGED queryVars /\ UNCHANGED rankVars
  /\ lrArg' = lrArg

\* line 216
NextPos(pos, len) == (pos + 1) % len

\* getNegative without the retry
RetryNever(tg, neg) == FALSE

\* getNegative with the test of the retry turned round
RetryInverted(tg, neg) == tg # neg

\* line 217
Retry(tg, neg) == tg = neg

\* lines 214-217: one pass of getNegative's loop; reads counts the passes
\* of this call, up to one more than the table is long
getNegative ==
  /\ pc = "getNegative"
  /\ negative' = negatives[negpos + 1]
  /\ negpos' = NextPos(negpos, Len(negatives))
  /\ reads' = IF reads <= Len(negatives) THEN reads + 1 ELSE reads
  /\ pc' = IF Retry(target, negative') THEN "getNegative" ELSE "negativeSampling"
  /\ UNCHANGED <<loss, osz, counts, lr, configured, negatives, wi, wo>>
  /\ UNCHANGED <<input, target, n, lossAcc, ret, updates>>
  /\ UNCHANGED treeVars /\ UNCHANGED queryVars /\ UNCHANGED rankVars
  /\ lrArg' = lrArg

\* lines 56-63: getNegative has returned negative; binaryLogistic on it, and
\* the next pass of the loop or the return to update, lines 179-185
negativeSamplingStep ==
  /\ pc = "negativeSampling"
  /\ wo' = [wo EXCEPT ![negative] = @ + 1]
  /\ \E l \in LossVals :
       /\ lossAcc' = lossAcc + l
       /\ n' = n + 1
       /\ IF n + 1 <= NEG
          THEN /\ pc' = "getNegative" /\ reads' = 0
               /\ UNCHANGED <<wi, ret, target>>
          ELSE /\ reads' = reads
               /\ Propagate(input, lossAcc + l)
  /\ UNCHANGED <<loss, osz, counts, lr, configured, negatives, negpos>>
  /\ UNCHANGED <<input, negative, updates>>
  /\ UNCHANGED treeVars /\ UNCHANGED queryVars /\ UNCHANGED rankVars
  /\ lrArg' = lrArg

\* The trainer's start: no query is ranked; the rate only scales the
\* numbers binaryLogistic and softmax add to the rows
InitTrain ==
  /\ InitModel
  /\ lr = MIN_LR
  /\ dense = <<>> /\ sig = <<>>

NextTrain ==
  \/ setTargetCounts
  \/ update
  \/ getNegative
  \/ negativeSamplingStep

\* The configuration step and the trainer
SpecTrain == InitTrain /\ [][NextTrain]_vars

\* A running getNegative keeps running
SpecTrainFair == SpecTrain /\ WF_vars(getNegative)

\* The start of a model constructed with any initial rate
InitRate ==
  /\ InitModel
  /\ lr \in LrVals
  /\ dense = <<>> /\ sig = <<>>

NextRate == setTargetCounts \/ setLearningRate

\* The configuration step and the learning rate
SpecRate == InitRate /\ [][NextRate]_vars

NextRank == setTargetCounts \/ predict

\* The configuration step and the ranker
SpecRank == InitRank /\ [][NextRank]_vars

\* ------------------------------------------------- the Huffman tree
TreeBuilt == configured /\ loss = "hs"

Classes == 0..(osz - 1)
Internal == osz..(2 * osz - 2)
Root == 2 * osz - 2

\* The table <<c0, c1, ...>> as the program indexes it
Table(s) == [i \in 0..(Len(s) - 1) |-> s[i + 1]]

Children(i) == {j \in DOMAIN tree : tree[j].parent = i}
ParentsOf(j) == {i \in Internal : tree[i].left = j \/ tree[i].right = j}

\* C1: for a frequency table of C entries sorted ascending, buildTree makes
\* exactly 2C-1 nodes; every internal node C..2C-2 has exactly two distinct
\* children, whose weights sum to its own; every node but the root 2C-2 has
\* exactly one parent; and the path and the code of a class are equally long.
C1_TreeShape ==
  (TreeBuilt /\ Ascending(counts, osz)) =>
    /\ DOMAIN tree = 0..(2 * osz - 2)
    /\ \A c \in Classes : tree[c].count = counts[c]
    /\ \A i \in Internal :
         /\ tree[i].left \in DOMAIN tree /\ tree[i].right \in DOMAIN tree
         /\ tree[i].left # tree[i].right
         /\ Children(i) = {tree[i].left, tree[i].right}
         /\ tree[i].count = tree[tree[i].left].count + tree[tree[i].right].count
    /\ \A j \in DOMAIN tree \ {Root} :
         /\ Cardinality(ParentsOf(j)) = 1
         /\ ParentsOf(j) = {tree[j].parent}
    /\ ParentsOf(Root) = {} /\ tree[Root].parent = -1
    /\ DOMAIN paths = Classes /\ DOMAIN codes = Classes
    /\ \A c \in Classes : Len(paths[c]) = Len(codes[c])

\* C1's case: a tree over at least three classes with unequal counts, built
\* from an ascending table
C1_Witness ==
  /\ TreeBuilt /\ Ascending(counts, osz)
  /\ osz >= 3 /\ counts[0] < counts[osz - 1]
  /\ tree[Root].count > counts[osz - 1]

FrequentShorter ==
  \A a, b \in Classes :
    counts[a] > counts[b] => Len(codes[a]) <= Len(codes[b])

\* C2 as stated: for a table sorted ascending, a class with a larger count
\* has a code no longer than a class with a smaller count, and for
\* [1,1,2,4] class 3 has the shortest code and classes 0 and 1 the longest.
C2_AscendingFrequentShorter ==
  (TreeBuilt /\ Ascending(counts, osz)) =>
    /\ FrequentShorter
    /\ counts = Table(<<1, 1, 2, 4>>) =>
         \A c \in Classes : /\ Len(codes[3]) <= Len(codes[c])
                            /\ Len(codes[c]) <= Len(codes[0])
                            /\ Len(codes[c]) <= Len(codes[1])

\* C2 amended: for a table sorted descending (non-increasing), a class with
\* a larger count has a code no longer than a class with a smaller count,
\* and for [4,2,1,1] class 0 (weight 4) has the one shortest code and
\* classes 2 and 3 (weight 1) the longest.
C2_DescendingFrequentShorter ==
  (TreeBuilt /\ Descending(counts, osz)) =>
    /\ FrequentShorter
    /\ counts = Table(<<4, 2, 1, 1>>) =>
         /\ \A c \in Classes \ {0} : Len(codes[0]) < Len(codes[c])
         /\ \A c \in Classes : Len(codes[c]) <= Len(codes[2])
         /\ Len(codes[2]) = Len(codes[3])

\* C2's case: the tree of [4,2,1,1], with codes of three lengths
C2_Witness ==
  /\ TreeBuilt /\ counts = Table(<<4, 2, 1, 1>>)
  /\ Len(codes[0]) < Len(codes[1]) /\ Len(codes[1]) < Len(codes[2])

RECURSIVE DescendFrom(_, _, _)
\* From node, the bits i, i-1, ..., 1 of the code of c, right on 1 and left
\* on 0, pass the internal nodes paths[c] names and end at leaf c
DescendFrom(node, c, i) ==
  IF i = 0 THEN node = c
  ELSE /\ node = paths[c][i] + osz
       /\ DescendFrom(IF codes[c][i] THEN tree[node].right ELSE tree[node].left,
                      c, i - 1)

\* C3: for every class c, going down from the root by the bits of c's code
\* in root-to-leaf order (the stored order reversed), right on 1 and left on
\* 0, visits exactly the internal nodes paths[c][i] + C and ends at leaf c.
C3_RoundTrip ==
  TreeBuilt => \A c \in Classes : DescendFrom(Root, c, Len(codes[c]))

\* C3's case: a class three levels below the root, reached by a right and a
\* left step
C3_Witness ==
  /\ TreeBuilt
  /\ \E c \in Classes :
       /\ Len(codes[c]) >= 3
       /\ \E i, j \in 1..Len(codes[c]) : codes[c][i] /\ ~codes[c][j]

\* ------------------------------------------------------------ the ranker
Predicted == kArg > 0

Min(a, b) == IF a < b THEN a ELSE b

RECURSIVE PathScoreFrom(_, _)
\* The sum of the log-probability steps on the path of class c
PathScoreFrom(c, i) ==
  IF i = 0 THEN 0
  ELSE PathScoreFrom(c, i - 1)
       + (IF codes[c][i] THEN LogF(sig[paths[c][i]]) ELSE Log1mF(sig[paths[c][i]]))

ClassScore(c) ==
  IF loss = "hs" THEN PathScoreFrom(c, Len(paths[c])) ELSE dense[c]

RECURSIVE BestScores(_, _)
\* The m largest scores of the classes S, largest first
BestScores(S, m) ==
  IF m = 0 \/ S = {} THEN <<>>
  ELSE LET c == CHOOSE x \in S : \A y \in S : ClassScore(x) >= ClassScore(y)
       IN <<ClassScore(c)>> \o BestScores(S \ {c}, m - 1)

HeapScores == [i \in 1..Len(heap) |-> heap[i][1]]

C5_KBest ==
  Predicted =>
    /\ HeapScores = BestScores(Classes, Min(kArg, osz))
    /\ \A i \in 1..Len(heap) :
         heap[i][2] \in Classes /\ heap[i][1] = ClassScore(heap[i][2])
    /\ \A i, j \in 1..Len(heap) : heap[i][2] = heap[j][2] => i = j

\* C5's case: a tree search that left out a class scoring below every
\* returned one and returned classes of different scores
C5_Witness ==
  /\ Predicted /\ loss = "hs" /\ kArg >= 2 /\ kArg < osz
  /\ heap[1][1] > heap[Len(heap)][1]
  /\ \E c \in Classes : ClassScore(c) < heap[Len(heap)][1]

\* ------------------------------------------ the negative sampling table
TableBuilt == configured /\ loss = "ns"

InGetNegative == pc = "getNegative"
Returned == pc = "negativeSampling"

\* C7: over any sequence of getNegative(target) calls on a non-empty table,
\* the cursor negpos stays in 0..len-1, every pass of the loop reads the
\* entry at the cursor and moves the cursor on by one modulo len, no other
\* step moves it (a call goes on where the call before stopped), and the
\* class a call returns is the entry read last and differs from target.
C7_Cursor ==
  /\ [](Len(negatives) > 0 => negpos \in 0..(Len(negatives) - 1))
  /\ [](Returned => negative # target)
  /\ [][InGetNegative =>
          /\ negative' = negatives[negpos + 1]
          /\ negpos' = (negpos + 1) % Len(negatives)
          /\ (pc' = "negativeSampling") = (negative' # target)]_vars
  /\ [][~InGetNegative => negpos' = negpos]_vars

\* C7's case: the second getNegative of an update has returned after a
\* retry, and the cursor has gone round the end of the table
C7_Witness ==
  /\ Returned /\ n = 2 /\ reads >= 2
  /\ negative # target /\ negative = negatives[Len(negatives)]
  /\ negpos = 0

\* ------------------------------------------------------------ update
\* a step that calls update with an empty input: between calls the only
\* steps are update calls, and each records its input
UpdateOfEmpty == configured /\ pc = "idle" /\ input' = <<>>

\* C8: update with an empty input and a valid target returns 0.0 and leaves
\* the input table, the output table, the cursor of the negative table and
\* the learning rate as they were, under each of the three losses.
C8_EmptyInputFrame ==
  [][UpdateOfEmpty =>
       /\ ret' = 0
       /\ wi' = wi /\ wo' = wo /\ negpos' = negpos /\ lr' = lr
       /\ negatives' = negatives /\ tree' = tree
       /\ pc' = "idle"]_vars

\* C8's case: an update with an empty input has returned 0 after an update
\* that changed both tables
C8_Witness ==
  /\ updates = 1 /\ input = <<>> /\ ret = 0 /\ pc = "idle"
  /\ \E r \in DOMAIN wo : wo[r] > 0
  /\ \E r \in DOMAIN wi : wi[r] > 0

\* ------------------------------------------------------ learning rate
\* C9: in every state reached by constructing a model with any initial rate
\* and calling setLearningRate with any values, the rate getLearningRate
\* returns is not below MIN_LR; after setLearningRate(v) it is MIN_LR when
\* v < MIN_LR and v otherwise.
C9_RateNotBelowFloor ==
  /\ lr >= MIN_LR
  /\ lrArg # NoValue => lr = (IF lrArg < MIN_LR THEN MIN_LR ELSE lrArg)

\* -------------------------------------------------------- termination
HasOther == \E p \in DOMAIN negatives : negatives[p] # target

\* C10: getNegative(target) returns from every cursor position when the
\* table holds a class other than target, after at most len reads of the
\* table; when every entry is target it never returns.
C10_Termination ==
  /\ []((InGetNegative /\ HasOther) => reads < Len(negatives))
  /\ [](Returned => reads <= Len(negatives))
  /\ ((InGetNegative /\ HasOther) ~> ~InGetNegative)
  /\ [][(InGetNegative /\ ~HasOther) => pc' = "getNegative"]_vars

\* C10's case: every entry of the table is target, and the running call has
\* read the table more often than it is long
C10_Witness ==
  /\ InGetNegative /\ ~HasOther
  /\ reads > Len(negatives)

=============================================================================
